---- MODULE Spec2Model ----
(***************************************************************************)
(* Model of the buddy memory allocator of src/src/lib.rs (BuddyPool).      *)
(*                                                                         *)
(* A byte count passed to new, malloc or realloc is a usize: it is the set  *)
(* of the positions of its one bits, so that the 64 bit width of the       *)
(* target is kept and no value is out of the model checker's range:        *)
(* {} is 0, {k} is 1 << k, 0..63 is usize::MAX.                            *)
(*                                                                         *)
(* An address inside the backing region is its byte offset from base, an   *)
(* integer.  The region is a sparse map from the offsets of its 32 byte    *)
(* cells to their contents; a cell that was never written reads as zero    *)
(* (an anonymous mapping is zero filled).  Stale headers stay in memory.   *)
(***************************************************************************)
EXTENDS Integers, FiniteSets, Sequences, TLC

(* ---------------- program constants ---------------- *)
DEFAULT_K == 30
MIN_K == 20
MAX_K == 48
BLOCK_AVAIL == 1
BLOCK_RESERVED == 0
BLOCK_UNUSED == 3
ENOMEM == 12
\* size_of::<Avail>() on a 64 bit target: u8 (padded to 8) + usize + two pointers
AVAIL_SIZE == 32
\* width of usize
USIZE_BITS == 64

(* ---------------- bounds of the exploration ---------------- *)
\* most pointers the caller holds (or has leaked) at one time
MaxLive == 2
\* most steps the caller takes: calls of malloc, free and realloc, and stores into a payload
MaxOps == 3
\* new is called with 0, usize::MAX and the sizes 2^k and 2^k + 1 for k up to MaxNewBit
MaxNewBit == 50
\* the byte value the caller stores into its payload
DataByte == 123

(* ---------------- usize arithmetic on bit sets ---------------- *)
SetMax(S) == CHOOSE x \in S : \A y \in S : y <= x

RECURSIVE ToWord(_)
\* the usize with the value of the small natural n
ToWord(n) == IF n = 0 THEN {}
             ELSE {i + 1 : i \in ToWord(n \div 2)} \cup (IF n % 2 = 1 THEN {0} ELSE {})

\* 1u64 << k
Shl1(k) == {k}

RECURSIVE IncW(_, _, _)
\* a + 2^k in w bits (the carry out of bit w - 1 is dropped)
IncW(a, k, w) == IF k >= w THEN a
                 ELSE IF k \in a THEN IncW(a \ {k}, k + 1, w)
                 ELSE a \cup {k}

RECURSIVE AddW(_, _, _)
\* a + b in w bits
AddW(a, b, w) == IF b = {} THEN a
                 ELSE LET k == SetMax(b) IN AddW(IncW(a, k, w), b \ {k}, w)

RECURSIVE DecW(_, _, _)
\* a - 2^k in w bits (wraps below zero)
DecW(a, k, w) == IF k >= w THEN a
                 ELSE IF k \in a THEN a \ {k}
                 ELSE DecW(a, k + 1, w) \cup {k}

RECURSIVE SubW(_, _, _)
\* a - b in w bits
SubW(a, b, w) == IF b = {} THEN a
                 ELSE LET k == SetMax(b) IN SubW(DecW(a, k, w), b \ {k}, w)

WrappingAdd(a, b) == AddW(a, b, USIZE_BITS)
WrappingSub(a, b) == SubW(a, b, USIZE_BITS)
\* the exact sum a + b does not fit a usize
AddOverflows(a, b) == USIZE_BITS \in AddW(a, b, USIZE_BITS + 1)
Shr1(a) == {i - 1 : i \in a \ {0}}

HW == ToWord(AVAIL_SIZE)

(* ---------------- addresses: byte offsets from base ---------------- *)
\* offsets are kept below 2^MaxOffBit; -1 stands for any address past that
MaxOffBit == 30
Pow2(k) == 2^k
\* addr ^ (1 << k)
XorBit(addr, k) ==
  IF k >= MaxOffBit \/ k < 0 \/ addr < 0 THEN -1
  ELSE IF (addr \div Pow2(k)) % 2 = 0 THEN addr + Pow2(k) ELSE addr - Pow2(k)
UsizeMax == 0 .. (USIZE_BITS - 1)

(* ---------------- b_to_k ---------------- *)
RECURSIVE BToKLoop(_, _)
BToKLoop(bytes, k) == IF bytes # {} THEN BToKLoop(Shr1(bytes), k + 1) ELSE k

\* b_to_k without its bytes -= 1
BToK_NoDecrement(bytes) == IF bytes = {} THEN 0 ELSE BToKLoop(bytes, 0)

BToK(bytes) == IF bytes = {} THEN 0
               ELSE BToKLoop(DecW(bytes, 0, USIZE_BITS), 0)

(* ---------------- pointers and headers ---------------- *)
Null == [seg |-> "null", idx |-> 0, off |-> 0]
\* &self.avail[k]
SentinelPtr(k) == [seg |-> "avail", idx |-> k, off |-> 0]
\* self.base.as_ptr().offset(off)
BasePtr(off) == [seg |-> "base", idx |-> 0, off |-> off]

\* Avail::new()
AvailNew == [tag |-> BLOCK_UNUSED, kval |-> 0, next |-> Null, prev |-> Null]
\* a zero filled cell read as an Avail
ZeroCell == [tag |-> 0, kval |-> 0, next |-> Null, prev |-> Null]
\* the contents of a region nothing was written to; f @@ NoCells is f as an explicit table
NoCells == [c \in {} |-> ZeroCell]

VARIABLES
  phase,            \* "unborn", "new", "ready", "failed", "panicked", "fault"
  overflow_checks,  \* whether the build panics on arithmetic overflow ("on") or wraps
                    \* ("off"); "unobserved" until the first overflowing addition shows it
  kval_m,           \* BuddyPool.kval_m
  base_len,         \* BuddyPool.base.len()
  avail,            \* BuddyPool.avail
  mem,              \* the contents of BuddyPool.base, by cell offset
  errno,            \* the ambient error number
  live,             \* the user pointers the caller holds
  lost,             \* pointers the caller gave up that the pool never took back
  run,              \* pointers returned by the successful mallocs since the last free
  ops,              \* the number of steps the caller has taken
  ret               \* the last call and its result

vars == <<phase, overflow_checks, kval_m, base_len, avail, mem, errno, live, lost, run, ops, ret>>

\* the byte ranges of the copy a call made: none
NoCopy == [src |-> 0, dst |-> 0, len |-> 0]

NoRet == [op |-> "none", n |-> {}, p |-> Null, out |-> "none", ptr |-> Null, kase |-> "none",
          oldk |-> 0, kval |-> 0, copy |-> NoCopy, up |-> 0, merges |-> 0, shrinks |-> 0]

(* ---------------- BuddyPool::new ---------------- *)
\* the sizes new is called with
NewSizes == { {}, UsizeMax } \cup {Shl1(k) : k \in 0 .. MaxNewBit}
              \cup {IncW(Shl1(k), 0, USIZE_BITS) : k \in 0 .. MaxNewBit}

NewKval(size) ==
  LET k0 == IF size = {} THEN DEFAULT_K ELSE BToK(size)
      k1 == IF k0 < MIN_K THEN MIN_K ELSE k0
      k2 == IF k1 > MAX_K THEN MAX_K - 1 ELSE k1
  IN k2

New(size) ==
  /\ phase = "unborn"
  /\ \E mapped \in BOOLEAN :
       IF mapped
       THEN /\ phase' = "new"
            /\ kval_m' = NewKval(size)
            /\ base_len' = Shl1(NewKval(size))
            /\ errno' = errno
            /\ ret' = [NoRet EXCEPT !.op = "new", !.n = size, !.out = "ok"]
       ELSE /\ phase' = "failed"
            /\ errno' = ENOMEM
            /\ ret' = [NoRet EXCEPT !.op = "new", !.n = size, !.out = "nomem"]
            /\ UNCHANGED <<kval_m, base_len>>
  /\ UNCHANGED <<overflow_checks, avail, mem, live, lost, run, ops>>

\* before BuddyPool::new
InitNew ==
  /\ phase = "unborn"
  /\ overflow_checks = "unobserved"
  /\ kval_m = 0
  /\ base_len = {}
  /\ avail = [i \in 0 .. (MAX_K - 1) |-> AvailNew]
  /\ mem = NoCells
  /\ errno = 0
  /\ live = {}
  /\ lost = {}
  /\ run = << >>
  /\ ops = 0
  /\ ret = NoRet

\* the pool BuddyPool::new(1 << MIN_K) returns, as every test of the suite makes it
Init ==
  /\ phase = "new"
  /\ overflow_checks = "unobserved"
  /\ kval_m = NewKval(Shl1(MIN_K))
  /\ base_len = Shl1(NewKval(Shl1(MIN_K)))
  /\ avail = [i \in 0 .. (MAX_K - 1) |-> AvailNew]
  /\ mem = NoCells
  /\ errno = 0
  /\ live = {}
  /\ lost = {}
  /\ run = << >>
  /\ ops = 0
  /\ ret = [NoRet EXCEPT !.op = "new", !.n = Shl1(MIN_K), !.out = "ok"]

(* ---------------- BuddyPool::init ---------------- *)
InitPool ==
  /\ phase = "new"
  /\ IF kval_m >= MAX_K
     THEN \* self.avail[MAX_K] is out of bounds: the loop panics at i = MAX_K
          /\ phase' = "panicked"
          /\ avail' = [i \in 0 .. (MAX_K - 1) |->
                         [tag |-> BLOCK_UNUSED, kval |-> i,
                          next |-> SentinelPtr(i), prev |-> SentinelPtr(i)]]
          /\ mem' = mem
          /\ ret' = [NoRet EXCEPT !.op = "init", !.out = "panic"]
     ELSE /\ phase' = "ready"
          /\ avail' = [i \in 0 .. (MAX_K - 1) |->
                         IF i < kval_m
                         THEN [tag |-> BLOCK_UNUSED, kval |-> i,
                               next |-> SentinelPtr(i), prev |-> SentinelPtr(i)]
                         ELSE IF i = kval_m
                         THEN [tag |-> BLOCK_UNUSED, kval |-> i,
                               next |-> BasePtr(0), prev |-> BasePtr(0)]
                         ELSE avail[i]]
          /\ mem' = (0 :> [tag |-> BLOCK_AVAIL, kval |-> kval_m,
                            next |-> SentinelPtr(kval_m), prev |-> SentinelPtr(kval_m)])
          /\ ret' = [NoRet EXCEPT !.op = "init", !.out = "ok"]
  /\ UNCHANGED <<overflow_checks, kval_m, base_len, errno, live, lost, run, ops>>

(* ---------------- memory and the pool's sentinels as one store ---------------- *)
\* the caller fills a cell of its payload with DataByte
UserCell == [tag |-> DataByte, kval |-> DataByte, next |-> Null, prev |-> Null]

\* off lies inside the backing region
InRegion(off) == off >= 0 /\ (kval_m >= MaxOffBit \/ off < Pow2(kval_m))

ReadCell(m, off) == IF off \in DOMAIN m THEN m[off] ELSE ZeroCell

WriteCell(m, off, c) ==
  IF c = ZeroCell
  THEN [x \in DOMAIN m \ {off} |-> m[x]] @@ NoCells
  ELSE (off :> c) @@ m

\* *p
Load(h, p) == IF p.seg = "avail" THEN h.av[p.idx] ELSE ReadCell(h.m, p.off)

\* *p = c; a write through a null pointer or outside the region is flagged
Store(h, p, c) ==
  IF p.seg = "avail" /\ p.idx \in DOMAIN h.av
  THEN [h EXCEPT !.av[p.idx] = c]
  ELSE IF p.seg = "base" /\ InRegion(p.off)
  THEN [h EXCEPT !.m = WriteCell(h.m, p.off, c)]
  ELSE [h EXCEPT !.fault = TRUE]

\* the pool a call starts from; up, merges and shrinks count what the call does: the
\* recursive calls of malloc_kval, the turns of the loop of free_avail and the turns of
\* the shrink loop of realloc
Heap == [av |-> avail, m |-> mem, fault |-> FALSE, up |-> 0, merges |-> 0, shrinks |-> 0]

(* ---------------- BuddyPool::buddy_calc ---------------- *)
\* buddy_calc with the mask one bit too low
BuddyCalc_HalfMask(h, a) == BasePtr(XorBit(a.off, Load(h, a).kval - 1))

BuddyCalc(h, a) ==
  LET addr == a.off
      kval == Load(h, a).kval
  IN BasePtr(XorBit(addr, kval))

(* ---------------- BuddyPool::add_to_avail ---------------- *)
\* add_to_avail that leaves the prev of the sentinel as it was
AddToAvail_NoBackLink(h, a) ==
  LET kval == Load(h, a).kval
      h1 == Store(h, a, [Load(h, a) EXCEPT !.prev = h.av[kval].prev, !.next = SentinelPtr(kval)])
      tail == h.av[kval].prev
      h3 == Store(h1, tail, [Load(h1, tail) EXCEPT !.next = a])
  IN Store(h3, a, [Load(h3, a) EXCEPT !.tag = BLOCK_AVAIL])

AddToAvail(h, a) ==
  LET kval == Load(h, a).kval
      h1 == Store(h, a, [Load(h, a) EXCEPT !.prev = h.av[kval].prev])
      h2 == Store(h1, a, [Load(h1, a) EXCEPT !.next = SentinelPtr(kval)])
      tail == h2.av[kval].prev
      h3 == Store(h2, tail, [Load(h2, tail) EXCEPT !.next = a])
      h4 == Store(h3, SentinelPtr(kval), [h3.av[kval] EXCEPT !.prev = a])
  IN Store(h4, a, [Load(h4, a) EXCEPT !.tag = BLOCK_AVAIL])

(* ---------------- BuddyPool::remove_from_avail ---------------- *)
\* remove_from_avail that retags the block and leaves it linked into its list
RemoveFromAvail_NoUnlink(h, a) ==
  Store(h, a, [Load(h, a) EXCEPT !.tag = BLOCK_RESERVED])

RemoveFromAvail(h, a) ==
  LET nx == Load(h, a).next
      h1 == Store(h, nx, [Load(h, nx) EXCEPT !.prev = Load(h, a).prev])
      pv == Load(h1, a).prev
      h2 == Store(h1, pv, [Load(h1, pv) EXCEPT !.next = Load(h1, a).next])
  IN Store(h2, a, [Load(h2, a) EXCEPT !.tag = BLOCK_RESERVED, !.next = Null, !.prev = Null])

(* ---------------- BuddyPool::split ---------------- *)
\* a split that halves the block and never puts the upper half on a free list
Split_DropsBuddy(h, a) ==
  Store(h, a, [Load(h, a) EXCEPT !.kval = @ - 1, !.tag = BLOCK_RESERVED])

Split(h, a) ==
  LET kval == Load(h, a).kval
      h1 == Store(h, a, [Load(h, a) EXCEPT !.kval = kval - 1, !.tag = BLOCK_RESERVED])
      buddy == BuddyCalc(h1, a)
      h2 == Store(h1, buddy, AvailNew)
      h3 == Store(h2, buddy, [Load(h2, buddy) EXCEPT !.kval = kval - 1, !.tag = BLOCK_AVAIL])
  IN AddToAvail(h3, buddy)

(* ---------------- BuddyPool::malloc_kval ---------------- *)
RECURSIVE MallocKval(_, _)
MallocKval(h, kval) ==
  IF kval > kval_m
  THEN [ok |-> FALSE, blk |-> Null, h |-> h]
  ELSE IF h.av[kval].next # SentinelPtr(kval)
  THEN LET block == h.av[kval].next
       IN [ok |-> TRUE, blk |-> block, h |-> RemoveFromAvail(h, block)]
  ELSE LET larger == MallocKval([h EXCEPT !.up = @ + 1], kval + 1)
       IN IF ~larger.ok THEN larger
          ELSE [ok |-> TRUE, blk |-> larger.blk, h |-> Split(larger.h, larger.blk)]

(* ---------------- BuddyPool::get_avail_buddy ---------------- *)
\* get_avail_buddy with the test of the buddy's tag inverted
GetAvailBuddy_TagInverted(h, a) ==
  IF Load(h, a).kval = kval_m THEN Null
  ELSE IF Load(h, BuddyCalc(h, a)).tag = BLOCK_AVAIL THEN Null
  ELSE IF Load(h, BuddyCalc(h, a)).kval # Load(h, a).kval THEN Null
  ELSE BuddyCalc(h, a)

\* Null stands for None
GetAvailBuddy(h, a) ==
  IF Load(h, a).kval = kval_m THEN Null
  ELSE LET buddy == BuddyCalc(h, a)
       IN IF Load(h, buddy).tag # BLOCK_AVAIL THEN Null
          ELSE IF Load(h, buddy).kval # Load(h, a).kval THEN Null
          ELSE buddy

(* ---------------- BuddyPool::free_avail ---------------- *)
RECURSIVE FreeAvailLoop_SurvivorFreed(_, _)
\* coalescing in which the freed block survives whichever of the pair is lower
FreeAvailLoop_SurvivorFreed(h, a) ==
  IF GetAvailBuddy(h, a) = Null THEN AddToAvail(h, a)
  ELSE FreeAvailLoop_SurvivorFreed(
         Store(RemoveFromAvail(h, GetAvailBuddy(h, a)), a,
               [Load(RemoveFromAvail(h, GetAvailBuddy(h, a)), a) EXCEPT !.kval = @ + 1]), a)

RECURSIVE FreeAvailLoop_BuddyLinked(_, _)
\* free_avail that leaves each buddy it absorbs on its free list
FreeAvailLoop_BuddyLinked(h, a) ==
  IF GetAvailBuddy(h, a) = Null THEN AddToAvail(h, a)
  ELSE IF a.off < GetAvailBuddy(h, a).off
  THEN FreeAvailLoop_BuddyLinked(Store(h, a, [Load(h, a) EXCEPT !.kval = @ + 1]), a)
  ELSE FreeAvailLoop_BuddyLinked(
         Store(h, GetAvailBuddy(h, a), [Load(h, GetAvailBuddy(h, a)) EXCEPT !.kval = @ + 1]),
         GetAvailBuddy(h, a))

RECURSIVE FreeAvailLoop(_, _)
FreeAvailLoop(h, a) ==
  LET buddy == GetAvailBuddy(h, a)
  IN IF buddy = Null THEN AddToAvail(h, a)
     ELSE LET h1 == [RemoveFromAvail(h, buddy) EXCEPT !.merges = @ + 1]
          IN IF a.off < buddy.off
             THEN FreeAvailLoop(Store(h1, a, [Load(h1, a) EXCEPT !.kval = @ + 1]), a)
             ELSE FreeAvailLoop(Store(h1, buddy, [Load(h1, buddy) EXCEPT !.kval = @ + 1]), buddy)

FreeAvail(h, a) == FreeAvailLoop(h, a)

(* ---------------- BuddyPool::free ---------------- *)
\* ptr.offset(-(size_of::<Avail>()))
HeaderOf(ptr) == BasePtr(ptr.off - AVAIL_SIZE)
\* (block as *mut u8).offset(size_of::<Avail>())
UserPtr(blk) == BasePtr(blk.off + AVAIL_SIZE)

\* free without its test for the null pointer
FreeOp_NoNullTest(h, ptr) == FreeAvail(h, HeaderOf(ptr))

FreeOp(h, ptr) == IF ptr = Null THEN h ELSE FreeAvail(h, HeaderOf(ptr))

(* ---------------- BuddyPool::malloc ---------------- *)
\* out: "ok", "nomem" (Err(NoMemory)), "panic" (size + avail_size overflows in a
\* build with overflow checks) or "fault" (a wild write)
MallocDone(r) ==
  IF ~r.ok THEN [out |-> "nomem", ptr |-> Null, h |-> r.h, seterr |-> TRUE]
  ELSE IF r.h.fault THEN [out |-> "fault", ptr |-> Null, h |-> r.h, seterr |-> FALSE]
  ELSE [out |-> "ok", ptr |-> UserPtr(r.blk), h |-> r.h, seterr |-> FALSE]

MallocOp(h, size, checks) ==
  IF AddOverflows(size, HW) /\ checks
  THEN [out |-> "panic", ptr |-> Null, h |-> h, seterr |-> FALSE]
  ELSE MallocDone(MallocKval(h, BToK(WrappingAdd(size, HW))))

\* the settings of the build's overflow checks a call with this size can meet
ChecksFor(size) ==
  IF ~AddOverflows(size, HW) THEN {overflow_checks}
  ELSE IF overflow_checks = "unobserved" THEN {"on", "off"}
  ELSE {overflow_checks}

\* what every call leaves behind: the pool, errno, and whether the process goes on
Commit(r, checks) ==
  /\ phase' = IF r.out = "panic" THEN "panicked"
              ELSE IF r.out = "fault" THEN "fault" ELSE phase
  /\ avail' = r.h.av
  /\ mem' = r.h.m
  /\ errno' = IF r.seterr THEN ENOMEM ELSE errno
  /\ overflow_checks' = checks
  /\ ops' = ops + 1
  /\ UNCHANGED <<kval_m, base_len>>

\* the sizes malloc and realloc are called with: 0, a quarter, a half and the
\* whole of the pool less the header, one byte more than fits, and usize::MAX
Sizes == { {},
           WrappingSub(Shl1(kval_m - 2), HW), WrappingSub(Shl1(kval_m - 1), HW),
           WrappingSub(Shl1(kval_m), HW),
           IncW(WrappingSub(Shl1(kval_m), HW), 0, USIZE_BITS),
           UsizeMax }

Malloc(size) ==
  /\ phase = "ready"
  /\ ops < MaxOps
  /\ Cardinality(live \cup lost) < MaxLive
  /\ \E checks \in ChecksFor(size) :
     \E r \in {MallocOp(Heap, size, checks = "on")} :
        /\ Commit(r, checks)
        /\ ret' = [NoRet EXCEPT !.op = "malloc", !.n = size, !.out = r.out, !.ptr = r.ptr,
                                !.up = r.h.up]
        /\ live' = IF r.out = "ok" THEN live \cup {r.ptr.off} ELSE live
        /\ run' = IF r.out = "ok" THEN Append(run, r.ptr.off) ELSE run
        /\ lost' = lost

Free(p) ==
  /\ phase = "ready"
  /\ ops < MaxOps
  /\ p \in live
  /\ \E h \in {FreeOp(Heap, BasePtr(p))} :
     \E r \in {[out |-> IF h.fault THEN "fault" ELSE "ok", h |-> h, seterr |-> FALSE]} :
        /\ Commit(r, overflow_checks)
        /\ ret' = [NoRet EXCEPT !.op = "free", !.p = BasePtr(p), !.out = r.out,
                                !.merges = r.h.merges]
        /\ live' = live \ {p}
        /\ run' = << >>
        /\ lost' = lost

FreeNull ==
  /\ phase = "ready"
  /\ ops < MaxOps
  /\ \E r \in {[out |-> "ok", h |-> FreeOp(Heap, Null), seterr |-> FALSE]} :
        /\ Commit(r, overflow_checks)
        /\ ret' = [NoRet EXCEPT !.op = "free", !.p = Null, !.out = "ok"]
        /\ UNCHANGED <<live, lost, run>>

(* ---------------- BuddyPool::realloc ---------------- *)
\* dst.copy_from_nonoverlapping(src, 2^k): the cells of [src, src + 2^k) land at the
\* same distance from dst; past is what a cell read past the end of the region holds
CopyRange(m, src, dst, len, past) ==
  LET srcCells == {c \in DOMAIN m : src <= c /\ c < src + len}
                    \cup {c \in {Pow2(kval_m)} : src <= c /\ c < src + len /\ past # ZeroCell}
      kept == {c \in DOMAIN m : ~(dst <= c /\ c < dst + len)}
      moved == {dst + (c - src) : c \in srcCells}
  IN [d \in kept \cup moved |->
        IF d \in moved
        THEN (IF InRegion(src + (d - dst)) THEN m[src + (d - dst)] ELSE past)
        ELSE m[d]] @@ NoCells

\* the copy taken from the block's header instead of the user pointer
CopyCells_FromHeader(m, src, dst, k, past) == CopyRange(m, src - AVAIL_SIZE, dst, Pow2(k), past)

\* realloc's copy: 2^old_kval bytes from ptr to new_block
CopyCells(m, src, dst, k, past) == CopyRange(m, src, dst, Pow2(k), past)

\* the copy reads or writes bytes outside [base, base + 2^kval_m)
CopyLeavesRegion(src, dst, k) ==
  \/ src + Pow2(k) > Pow2(kval_m)
  \/ dst + Pow2(k) > Pow2(kval_m)

\* an if in the place of the while: one split, whatever the target
ShrinkLoop_Once(h, old, target) ==
  IF target < Load(h, old).kval THEN Split(h, old) ELSE h

RECURSIVE ShrinkLoop_OneMore(_, _, _)
\* a shrink loop that splits while target_kval <= old_avail.kval
ShrinkLoop_OneMore(h, old, target) ==
  IF target <= Load(h, old).kval
  THEN ShrinkLoop_OneMore([Split(h, old) EXCEPT !.shrinks = @ + 1], old, target)
  ELSE h

RECURSIVE ShrinkLoop(_, _, _)
\* while target_kval < old_avail.kval { old_avail = self.split(old_avail) }
ShrinkLoop(h, old, target) ==
  IF target < Load(h, old).kval
  THEN ShrinkLoop([Split(h, old) EXCEPT !.shrinks = @ + 1], old, target)
  ELSE h

\* the early return left out
SameOrder_Never(target_kval, old_kval) == FALSE

\* if target_kval == old_kval { return Ok(ptr) }
SameOrder(target_kval, old_kval) == target_kval = old_kval

\* what a read past the end of the region can give: a trap, zeroes, or other bytes
PastReads == {"fault", "zero", "junk"}
PastCell(past) == IF past = "junk" THEN UserCell ELSE ZeroCell

\* what a call of realloc leaves: the outcome, the pointer returned, the pool, whether
\* errno was set, the case of the code taken, the order of the block before the call, and
\* whether the copy left the region
Res(out, ptr, h, seterr, kase, oldk, past) ==
  [out |-> out, ptr |-> ptr, h |-> h, seterr |-> seterr, kase |-> kase, oldk |-> oldk,
   past |-> past, copy |-> NoCopy]

\* the end of the grow case: h3 is the pool after the copy and self.free(ptr), h before
GrowDone(h3, h, new_block, old_kval, leaves, past) ==
  IF (leaves /\ past = "fault") \/ h3.fault
  THEN Res("fault", Null, h, FALSE, "grow", old_kval, leaves)
  ELSE Res("ok", new_block, h3, FALSE, "grow", old_kval, leaves)

\* the ranges of new_block.copy_from_nonoverlapping(ptr, old_size), old_size being
\* 1 << old_avail.kval: old_size bytes read from ptr on, written from new_block on
CopySpan(ptr, new_block, k) == [src |-> ptr.off, dst |-> new_block.off, len |-> Pow2(k)]

\* new_block.copy_from_nonoverlapping(ptr, 1 << k); self.free(ptr); ptr = new_block
GrowInto(h, ptr, new_block, k, old_kval, past) ==
  [GrowDone(FreeOp([h EXCEPT !.m = CopyCells(h.m, ptr.off, new_block.off, k, PastCell(past))],
                   ptr),
            h, new_block, old_kval, CopyLeavesRegion(ptr.off, new_block.off, k), past)
     EXCEPT !.copy = CopySpan(ptr, new_block, k)]

\* a grow case that gives the old block up before it knows the new one exists
ReallocGrow_FreesFirst(r, ptr, old_avail, old_kval, past) ==
  IF ~r.ok
  THEN Res("nomem", Null, FreeOp(r.h, ptr), TRUE, "grow", old_kval, FALSE)
  ELSE GrowInto(r.h, ptr, UserPtr(r.blk), Load(r.h, old_avail).kval, old_kval, past)

\* the grow case, r being what self.malloc_kval(target_kval) returned
ReallocGrow(r, ptr, old_avail, old_kval, past) ==
  IF ~r.ok
  THEN Res("nomem", Null, r.h, TRUE, "grow", old_kval, FALSE)
  ELSE GrowInto(r.h, ptr, UserPtr(r.blk), Load(r.h, old_avail).kval, old_kval, past)

\* after the shrink loop, which left the pool h1
ReallocResize(h1, ptr, old_avail, target_kval, old_kval, past) ==
  IF target_kval > Load(h1, old_avail).kval
  THEN ReallocGrow(MallocKval(h1, target_kval), ptr, old_avail, old_kval, past)
  ELSE Res(IF h1.fault THEN "fault" ELSE "ok", ptr, h1, FALSE, "shrink", old_kval, FALSE)

\* the size == 0 case, h1 being the pool after self.free(ptr)
ReallocFree(h1, ptr, old_kval) ==
  Res(IF h1.fault THEN "fault" ELSE "ok", ptr, h1, FALSE, "free", old_kval, FALSE)

\* realloc of a non-null pointer once target_kval is computed
ReallocBlock(h, ptr, size, target_kval, old_avail, old_kval, past) ==
  IF target_kval > kval_m
  THEN Res("nomem", Null, h, TRUE, "toolarge", old_kval, FALSE)
  ELSE IF SameOrder(target_kval, old_kval)
  THEN Res("ok", ptr, h, FALSE, "same", old_kval, FALSE)
  ELSE IF size = {}
  THEN ReallocFree(FreeOp(h, ptr), ptr, old_kval)
  ELSE ReallocResize(ShrinkLoop(h, old_avail, target_kval), ptr, old_avail, target_kval,
                     old_kval, past)

\* the header's bytes left out of the order asked for
ReallocOfNull_NoHeader(h, size, checks) == MallocDone(MallocKval(h, BToK(size)))

\* if ptr.is_null() { return self.malloc(size); }
ReallocOfNull(h, size, checks) == MallocOp(h, size, checks)

\* past: the outcome of a read past the end of the region, should one happen
ReallocOp(h, ptr, size, checks, past) ==
  IF ptr = Null
  THEN ReallocOfNull(h, size, checks) @@ [kase |-> "null", oldk |-> 0, past |-> FALSE, copy |-> NoCopy]
  ELSE IF AddOverflows(size, HW) /\ checks
  THEN Res("panic", Null, h, FALSE, "overflow", 0, FALSE)
  ELSE ReallocBlock(h, ptr, size, BToK(WrappingAdd(size, HW)), HeaderOf(ptr),
                    Load(h, HeaderOf(ptr)).kval, past)

\* r, or one result for each outcome of a read past the end of the region when the
\* copy of r made one
PastAlternatives(r, h, ptr, size, checks) ==
  IF r.past THEN {ReallocOp(h, ptr, size, checks, past) : past \in PastReads} ELSE {r}

\* the results of realloc(ptr, size)
ReallocResults(h, ptr, size, checks) ==
  PastAlternatives(ReallocOp(h, ptr, size, checks, "zero"), h, ptr, size, checks)

Realloc(p, size) ==
  /\ phase = "ready"
  /\ ops < MaxOps
  /\ p \in live
  /\ \E checks \in ChecksFor(size) :
     \E r \in ReallocResults(Heap, BasePtr(p), size, checks = "on") :
        /\ Commit(r, checks)
        /\ ret' = [NoRet EXCEPT !.op = "realloc", !.n = size, !.p = BasePtr(p),
                                !.out = r.out, !.ptr = r.ptr, !.kase = r.kase,
                                !.oldk = r.oldk, !.copy = r.copy, !.up = r.h.up,
                                !.merges = r.h.merges, !.shrinks = r.h.shrinks]
        \* the caller holds what a successful call returned, and nothing after
        \* realloc(p, 0), which is documented to be free(p)
        /\ live' = IF r.out # "ok" THEN live
                   ELSE IF size = {} THEN live \ {p}
                   ELSE (live \ {p}) \cup {r.ptr.off}
        /\ lost' = IF r.out = "ok" /\ size = {} /\ r.kase = "same" THEN lost \cup {p} ELSE lost
        /\ run' = IF r.out = "ok" /\ r.kase \in {"free", "grow"} THEN << >> ELSE run

ReallocNull(size) ==
  /\ phase = "ready"
  /\ ops < MaxOps
  /\ Cardinality(live \cup lost) < MaxLive
  /\ \E checks \in ChecksFor(size) :
     \E r \in {ReallocOp(Heap, Null, size, checks = "on", "zero")} :
        /\ Commit(r, checks)
        /\ ret' = [NoRet EXCEPT !.op = "realloc", !.n = size, !.p = Null,
                                !.out = r.out, !.ptr = r.ptr, !.kase = r.kase,
                                !.up = r.h.up]
        /\ live' = IF r.out = "ok" THEN live \cup {r.ptr.off} ELSE live
        /\ UNCHANGED <<lost, run>>

(* ---------------- the caller stores into its payload ---------------- *)
\* the first and the last cell of the payload of the block of user pointer p
PayloadEnds(p) ==
  LET k == ReadCell(mem, p - AVAIL_SIZE).kval
  IN IF Pow2(k) <= AVAIL_SIZE THEN {}
     ELSE {p, (p - AVAIL_SIZE) + Pow2(k) - AVAIL_SIZE}

Write(p, c) ==
  /\ phase = "ready"
  /\ ops < MaxOps
  /\ p \in live
  /\ c \in PayloadEnds(p)
  /\ ops' = ops + 1
  /\ mem' = WriteCell(mem, c, UserCell)
  /\ ret' = [NoRet EXCEPT !.op = "write", !.p = BasePtr(p)]
  /\ UNCHANGED <<phase, overflow_checks, kval_m, base_len, avail, errno, live, lost, run>>

\* the byte counts b_to_k is called with: 0, usize::MAX, and every power of two of a
\* usize with its two neighbours
BToKInputs == { {}, UsizeMax }
                \cup {Shl1(k) : k \in 0 .. (USIZE_BITS - 1)}
                \cup {IncW(Shl1(k), 0, USIZE_BITS) : k \in 0 .. (USIZE_BITS - 1)}
                \cup {DecW(Shl1(k), 0, USIZE_BITS) : k \in 0 .. (USIZE_BITS - 1)}

\* a call of b_to_k on its own, before any pool is made
BToKCall(bytes) ==
  /\ phase = "unborn"
  /\ ret' = [NoRet EXCEPT !.op = "b_to_k", !.n = bytes, !.kval = BToK(bytes)]
  /\ UNCHANGED <<phase, overflow_checks, kval_m, base_len, avail, mem, errno, live, lost, run,
                 ops>>

NextNew ==
  \/ \E size \in NewSizes : New(size)
  \/ InitPool
  \/ \E bytes \in BToKInputs : BToKCall(bytes)

SpecNew == InitNew /\ [][NextNew]_vars

Next ==
  \/ InitPool
  \/ \E size \in Sizes : Malloc(size)
  \/ \E p \in live : Free(p)
  \/ FreeNull
  \/ \E p \in live, size \in Sizes : Realloc(p, size)
  \/ \E size \in Sizes : ReallocNull(size)
  \/ \E p \in live : \E c \in PayloadEnds(p) : Write(p, c)

Spec == Init /\ [][Next]_vars
(***************************************************************************)
(* What the properties below are stated with.                              *)
(***************************************************************************)
\* the least k with 2^k >= b, for b given by its bits
CeilLog2(b) == IF b = {} THEN 0
               ELSE IF Cardinality(b) = 1 THEN SetMax(b) ELSE SetMax(b) + 1

\* bytes_to_order(n + H) with the sum taken exactly
OrderFor(n) == CeilLog2(AddW(n, HW, USIZE_BITS + 1))

RECURSIVE WalkNext(_, _, _, _)
\* the offsets of the blocks met from p along next, up to the sentinel of list k
WalkNext(m, p, k, fuel) ==
  IF p = SentinelPtr(k) \/ p.seg # "base" \/ fuel = 0 THEN << >>
  ELSE <<p.off>> \o WalkNext(m, ReadCell(m, p.off).next, k, fuel - 1)

RECURSIVE WalkPrev(_, _, _, _)
WalkPrev(m, p, k, fuel) ==
  IF p = SentinelPtr(k) \/ p.seg # "base" \/ fuel = 0 THEN << >>
  ELSE WalkPrev(m, ReadCell(m, p.off).prev, k, fuel - 1) \o <<p.off>>

\* the free list of order k of the pool (av, m), front to back
FreeList(av, m, k) == WalkNext(m, av[k].next, k, Cardinality(DOMAIN m) + 1)
FreeListBack(av, m, k) == WalkPrev(m, av[k].prev, k, Cardinality(DOMAIN m) + 1)
Range(f) == {f[i] : i \in DOMAIN f}

\* check_buddy_pool_full: the topology init leaves
PoolFullOf(av, m) ==
  /\ \A k \in 0 .. (kval_m - 1) :
       /\ av[k].kval = k /\ av[k].tag = BLOCK_UNUSED
       /\ av[k].next = SentinelPtr(k) /\ av[k].prev = SentinelPtr(k)
  /\ av[kval_m].kval = kval_m /\ av[kval_m].tag = BLOCK_UNUSED
  /\ av[kval_m].next = BasePtr(0) /\ av[kval_m].prev = BasePtr(0)
  /\ ReadCell(m, 0) = [tag |-> BLOCK_AVAIL, kval |-> kval_m,
                       next |-> SentinelPtr(kval_m), prev |-> SentinelPtr(kval_m)]
PoolFull == PoolFullOf(avail, mem)

\* check_buddy_pool_empty: no free list holds a block
PoolEmptyOf(av, m) ==
  \A k \in 0 .. kval_m :
     av[k].kval = k /\ av[k].next = SentinelPtr(k) /\ av[k].prev = SentinelPtr(k)

\* the byte at offset off lies in a block that is on a free list, tagged AVAIL
OnFreeListOf(av, m, off) ==
  \E k \in 0 .. kval_m : \E b \in Range(FreeList(av, m, k)) :
     /\ b <= off /\ off < b + Pow2(k)
     /\ ReadCell(m, b).tag = BLOCK_AVAIL /\ ReadCell(m, b).kval = k

\* the block whose header is at offset b is on some free list
LinkedOf(av, m, b) == \E k \in 0 .. kval_m : b \in Range(FreeList(av, m, k))

(***************************************************************************)
(* C1  Fullness after drain: once every pointer handed out has been        *)
(* released by free or by realloc, the pool has the topology init left.    *)
(***************************************************************************)
C1_FullAfterDrain ==
  (phase = "ready" /\ ret.op \in {"malloc", "free", "realloc"} /\ live = {}) => PoolFull

(***************************************************************************)
(* C2  realloc(p, 0) on a non-null pointer releases the block: its bytes   *)
(* are in an AVAIL block of a free list afterwards, and the pool is full   *)
(* when p was the only pointer outstanding.                                *)
(***************************************************************************)
C2_ReallocZeroReleases ==
  (phase = "ready" /\ ret.op = "realloc" /\ ret.p # Null /\ ret.n = {} /\ ret.out = "ok")
    => /\ OnFreeListOf(avail, mem, ret.p.off - AVAIL_SIZE)
       /\ (live \cup lost) \subseteq {ret.p.off} => PoolFull

(***************************************************************************)
(* C3  new(n) gives max_order DEFAULT_K for n = 0 and otherwise            *)
(* bytes_to_order(n) clamped into [MIN_K, MAX_K - 1]; max_order is never   *)
(* above MAX_K - 1 and the region has 2^max_order bytes.                   *)
(***************************************************************************)
ClampedOrder(n) ==
  IF n = {} THEN DEFAULT_K
  ELSE IF CeilLog2(n) < MIN_K THEN MIN_K
  ELSE IF CeilLog2(n) > MAX_K - 1 THEN MAX_K - 1
  ELSE CeilLog2(n)

C3_NewClampsOrder ==
  (ret.op = "new" /\ ret.out = "ok")
    => /\ kval_m = ClampedOrder(ret.n)
       /\ kval_m <= MAX_K - 1
       /\ base_len = Shl1(kval_m)

(***************************************************************************)
(* C4  After a successful malloc(n) the header H bytes before the returned *)
(* pointer has tag RESERVED and order bytes_to_order(n + H), and the block *)
(* is on no free list.                                                     *)
(***************************************************************************)
C4_MallocHeader ==
  (phase = "ready" /\ ret.op = "malloc" /\ ret.out = "ok")
    => /\ ReadCell(mem, ret.ptr.off - AVAIL_SIZE).tag = BLOCK_RESERVED
       /\ ReadCell(mem, ret.ptr.off - AVAIL_SIZE).kval = OrderFor(ret.n)
       /\ ~LinkedOf(avail, mem, ret.ptr.off - AVAIL_SIZE)

(***************************************************************************)
(* C5  The pointers returned by successful malloc calls with no free in    *)
(* between are pairwise distinct.                                          *)
(***************************************************************************)
C5_DistinctPointers ==
  \A i, j \in DOMAIN run : i # j => run[i] # run[j]

\* two mallocs in a row have succeeded
C5_TwoMallocs == ret.op = "malloc" /\ ret.out = "ok" /\ Len(run) >= 2

(***************************************************************************)
(* C6  malloc(n) with bytes_to_order(n + H) above max_order, that is with  *)
(* n > 2^max_order - H, returns Err(NoMemory) and sets the error number to *)
(* ENOMEM, whatever the state of the pool.                                 *)
(***************************************************************************)
C6_TooLargeFails ==
  (ret.op = "malloc" /\ OrderFor(ret.n) > kval_m)
    => (ret.out = "nomem" /\ errno = ENOMEM)

(***************************************************************************)
(* C7  A malloc of 2^max_order - H bytes on a full pool leaves every free  *)
(* list empty and returns a RESERVED block of order max_order; while that  *)
(* pointer is outstanding every malloc fails with NoMemory and ENOMEM, and *)
(* freeing it makes the pool full again.                                   *)
(***************************************************************************)
\* 2^max_order - H
WholeSize == WrappingSub(Shl1(kval_m), HW)

\* the block of the whole pool is the one outstanding
Exhausted ==
  /\ phase = "ready"
  /\ live = {AVAIL_SIZE}
  /\ ReadCell(mem, 0).kval = kval_m /\ ReadCell(mem, 0).tag = BLOCK_RESERVED

C7_Step ==
  /\ (phase = "ready" /\ PoolFull /\ ops' = ops + 1 /\ ret'.op = "malloc" /\ ret'.n = WholeSize)
       => /\ ret'.out = "ok"
          /\ PoolEmptyOf(avail', mem')
          /\ ReadCell(mem', ret'.ptr.off - AVAIL_SIZE).kval = kval_m
          /\ ReadCell(mem', ret'.ptr.off - AVAIL_SIZE).tag = BLOCK_RESERVED
  /\ (Exhausted /\ ops' = ops + 1 /\ ret'.op = "malloc")
       => (ret'.out = "nomem" /\ errno' = ENOMEM)
  /\ (Exhausted /\ ops' = ops + 1 /\ ret'.op = "free" /\ ret'.p = BasePtr(AVAIL_SIZE))
       => PoolFullOf(avail', mem')

C7_OneLargeBlock == [][C7_Step]_vars

(***************************************************************************)
(* C8  After a successful growing realloc(p, new_size) the header before   *)
(* the returned pointer is RESERVED with order                             *)
(* bytes_to_order(new_size + H), the old block is free, and every byte of  *)
(* the old payload, the 2^old_order - H bytes from p, is found unchanged   *)
(* at the same distance from the returned pointer.                         *)
(***************************************************************************)
\* the distances from `from` of the cells of [from, from + len) that hold something in m
HeldIn(m, from, len) == {c - from : c \in {x \in DOMAIN m : from <= x /\ x < from + len}}

C8_Step ==
  (phase = "ready" /\ ops' = ops + 1 /\ ret'.op = "realloc" /\ ret'.kase = "grow"
     /\ ret'.out = "ok")
    => LET p == ret'.p.off
           q == ret'.ptr.off
           payload == Pow2(ReadCell(mem, p - AVAIL_SIZE).kval) - AVAIL_SIZE
       IN /\ ReadCell(mem', q - AVAIL_SIZE).tag = BLOCK_RESERVED
          /\ ReadCell(mem', q - AVAIL_SIZE).kval = OrderFor(ret'.n)
          /\ OnFreeListOf(avail', mem', p - AVAIL_SIZE)
          /\ \A d \in HeldIn(mem, p, payload) \cup HeldIn(mem', q, payload) :
               ReadCell(mem', q + d) = ReadCell(mem, p + d)

C8_GrowKeepsPayload == [][C8_Step]_vars

\* a block the caller wrote to has been grown, and its data is at the new pointer
C8_GrownWithData ==
  /\ ret.op = "realloc" /\ ret.kase = "grow" /\ ret.out = "ok"
  /\ ReadCell(mem, ret.ptr.off) = UserCell

(***************************************************************************)
(* C9  A shrinking realloc(p, new_size), new_size > 0 and                  *)
(* target = bytes_to_order(new_size + H) below the block's order, returns  *)
(* p, leaves the header at p - H RESERVED with order target, and adds one  *)
(* fresh AVAIL upper half to each free list of order target .. old - 1; a  *)
(* later free of the pointer, nothing else outstanding, makes the pool     *)
(* full again.                                                             *)
(***************************************************************************)
C9_Step ==
  /\ (phase = "ready" /\ ops' = ops + 1 /\ ret'.op = "realloc" /\ ret'.p # Null
        /\ ret'.n # {} /\ OrderFor(ret'.n) < ReadCell(mem, ret'.p.off - AVAIL_SIZE).kval)
       => LET b == ret'.p.off - AVAIL_SIZE
              target == OrderFor(ret'.n)
              old == ReadCell(mem, b).kval
          IN /\ ret'.out = "ok" /\ ret'.ptr = ret'.p
             /\ ReadCell(mem', b).tag = BLOCK_RESERVED
             /\ ReadCell(mem', b).kval = target
             /\ \A k \in 0 .. kval_m :
                  IF target <= k /\ k < old
                  THEN /\ b + Pow2(k) \notin Range(FreeList(avail, mem, k))
                       /\ Range(FreeList(avail', mem', k))
                            = Range(FreeList(avail, mem, k)) \cup {b + Pow2(k)}
                       /\ Len(FreeList(avail', mem', k)) = Len(FreeList(avail, mem, k)) + 1
                       /\ ReadCell(mem', b + Pow2(k)).tag = BLOCK_AVAIL
                       /\ ReadCell(mem', b + Pow2(k)).kval = k
                  ELSE FreeList(avail', mem', k) = FreeList(avail, mem, k)
  /\ (phase = "ready" /\ ops' = ops + 1 /\ ret.op = "realloc" /\ ret.kase = "shrink"
        /\ ret.out = "ok" /\ ret'.op = "free" /\ ret'.p = ret.ptr
        /\ live \cup lost = {ret.ptr.off})
       => PoolFullOf(avail', mem')

C9_ShrinkSplits == [][C9_Step]_vars

\* a block of the whole pool has been shrunk by two orders
C9_ShrunkTwoOrders ==
  /\ ret.op = "realloc" /\ ret.kase = "shrink" /\ ret.out = "ok" /\ ret.n # {}
  /\ ret.oldk = kval_m
  /\ ReadCell(mem, ret.ptr.off - AVAIL_SIZE).kval = kval_m - 2

(***************************************************************************)
(* C10  realloc(p, s) on a RESERVED block whose order is                   *)
(* bytes_to_order(s + H) returns p and leaves every header and every free  *)
(* list as it was.                                                         *)
(***************************************************************************)
C10_Step ==
  (phase = "ready" /\ ops' = ops + 1 /\ ret'.op = "realloc" /\ ret'.p # Null
     /\ ReadCell(mem, ret'.p.off - AVAIL_SIZE).kval = OrderFor(ret'.n))
    => /\ ret'.out = "ok" /\ ret'.ptr = ret'.p
       /\ mem' = mem /\ avail' = avail

C11_Step ==
  (phase = "ready" /\ ops' = ops + 1 /\ ret'.op = "realloc" /\ ret'.p = Null)
    => \E m \in {MallocOp(Heap, ret'.n, overflow_checks' = "on")} :
          /\ ret'.out = m.out /\ ret'.ptr = m.ptr
          /\ avail' = m.h.av /\ mem' = m.h.m
          /\ errno' = (IF m.seterr THEN ENOMEM ELSE errno)

C11_ReallocNullIsMalloc == [][C11_Step]_vars

\* realloc(null, n) has handed out a block
C11_NullAllocated == ret.op = "realloc" /\ ret.p = Null /\ ret.out = "ok" /\ ret.ptr # Null

(***************************************************************************)
(* C12  Right after new and init every list avail[k], k < max_order, is    *)
(* empty with a sentinel of order k tagged UNUSED, and avail[max_order]    *)
(* holds one block, at base, AVAIL, of order max_order, linked to the      *)
(* sentinel both ways.                                                     *)
(***************************************************************************)
C12_PostInitTopology ==
  (ret.op = "init") => (phase = "ready" /\ kval_m \in DOMAIN avail /\ PoolFull)

(***************************************************************************)
(* C13  On a full pool malloc(n) with k = bytes_to_order(n + H) <=         *)
(* max_order returns base + H, a block of order k, and leaves exactly one  *)
(* AVAIL block in each free list of order k .. max_order - 1 and none in   *)
(* any other list, avail[max_order] included.                              *)
(***************************************************************************)
C13_Step ==
  (phase = "ready" /\ PoolFull /\ ops' = ops + 1 /\ ret'.op = "malloc"
     /\ OrderFor(ret'.n) <= kval_m)
    => /\ ret'.out = "ok" /\ ret'.ptr = BasePtr(AVAIL_SIZE)
       /\ ReadCell(mem', 0).kval = OrderFor(ret'.n)
       /\ ReadCell(mem', 0).tag = BLOCK_RESERVED
       /\ \A j \in 0 .. kval_m :
            IF OrderFor(ret'.n) <= j /\ j < kval_m
            THEN /\ FreeList(avail', mem', j) = <<Pow2(j)>>
                 /\ ReadCell(mem', Pow2(j)).tag = BLOCK_AVAIL
                 /\ ReadCell(mem', Pow2(j)).kval = j
            ELSE FreeList(avail', mem', j) = << >>

C13_FirstMallocSplits == [][C13_Step]_vars

\* the first call on the pool was a malloc(0), which split the pool down to order 5
C13_SplitDown ==
  /\ ops = 1 /\ ret.op = "malloc" /\ ret.n = {} /\ ret.out = "ok"
  /\ \A j \in 5 .. (kval_m - 1) : Len(FreeList(avail, mem, j)) = 1

(***************************************************************************)
(* C14  b_to_k(b) is the least k >= 0 with 2^k >= b, and b_to_k(0) = 0.    *)
(***************************************************************************)
\* 2^k >= b, for b given by its bits
PowGeq(k, b) == b = {} \/ SetMax(b) < k \/ b = {k}

C14_BToKLeast ==
  (ret.op = "b_to_k")
    => /\ PowGeq(ret.kval, ret.n)
       /\ \A j \in 0 .. (ret.kval - 1) : ~PowGeq(j, ret.n)
       /\ (ret.n = {} => ret.kval = 0)

\* b_to_k has been given a power of two above 1, and one that is none
C14_Computed ==
  ret.op = "b_to_k" /\ ret.kval > 1 /\ (ret.n = {ret.kval} \/ Cardinality(ret.n) = 2)

(***************************************************************************)
(* C15  free(null) does nothing: every header, every free list and the     *)
(* error number are as they were.                                          *)
(***************************************************************************)
C15_Step ==
  (phase = "ready" /\ ops' = ops + 1 /\ ret'.op = "free" /\ ret'.p = Null)
    => (avail' = avail /\ mem' = mem /\ errno' = errno /\ phase' = phase)

C15_FreeNullNoOp == [][C15_Step]_vars

\* free(null) has been called on a pool with a block handed out
C15_FreeNullCalled == ret.op = "free" /\ ret.p = Null /\ live # {}

(***************************************************************************)
(* C16  Between operations no AVAIL block of order k < max_order has a     *)
(* buddy that is AVAIL with the same order k.                              *)
(***************************************************************************)
C16_NoMergeable ==
  (phase = "ready")
    => \A k \in 0 .. (kval_m - 1) : \A b \in Range(FreeList(avail, mem, k)) :
          ~ /\ ReadCell(mem, XorBit(b, k)).tag = BLOCK_AVAIL
            /\ ReadCell(mem, XorBit(b, k)).kval = k

\* a block was freed next to a buddy that is handed out, and stays unmerged on its list
C16_FreedBesideReserved ==
  /\ phase = "ready" /\ ret.op = "free" /\ ret.p # Null /\ live # {}
  /\ \E k \in 0 .. (kval_m - 1) : ret.p.off - AVAIL_SIZE \in Range(FreeList(avail, mem, k))

(***************************************************************************)
(* C17  Between operations the blocks, AVAIL on the free lists or RESERVED *)
(* and handed to a caller, partition the region: every byte of             *)
(* [base, base + 2^max_order) lies in exactly one block.                   *)
(***************************************************************************)
\* the headers of the blocks handed out and not taken back
ReservedBlocks == {p - AVAIL_SIZE : p \in live \cup lost}
\* the headers of the blocks on the free lists
AvailBlocks == UNION {Range(FreeList(avail, mem, k)) : k \in 0 .. kval_m}

RECURSIVE SumSizes(_)
\* the bytes of the blocks of S together, each taken with the order of its header
SumSizes(S) ==
  IF S = {} THEN 0
  ELSE LET b == CHOOSE x \in S : TRUE
       IN Pow2(ReadCell(mem, b).kval) + SumSizes(S \ {b})

C17_BlocksPartition ==
  (phase = "ready")
    => /\ ReservedBlocks \cap AvailBlocks = {}
       /\ \A b \in ReservedBlocks \cup AvailBlocks :
            /\ ReadCell(mem, b).kval <= kval_m
            /\ 0 <= b /\ b + Pow2(ReadCell(mem, b).kval) <= Pow2(kval_m)
       /\ \A b1, b2 \in ReservedBlocks \cup AvailBlocks :
            b1 < b2 => b1 + Pow2(ReadCell(mem, b1).kval) <= b2
       /\ SumSizes(ReservedBlocks \cup AvailBlocks) = Pow2(kval_m)

\* two blocks are handed out and free blocks of different orders lie between and after
C17_Mixed ==
  /\ phase = "ready" /\ Cardinality(live) = 2
  /\ Cardinality(AvailBlocks) >= 2

(***************************************************************************)
(* C18  Between operations every avail[k], k in [0, max_order], is a well  *)
(* formed circular doubly linked list: next from the sentinel comes back   *)
(* to the sentinel, prev visits the same nodes in reverse, every node is a *)
(* block inside the region with tag AVAIL and order k; and every AVAIL     *)
(* block is on exactly the list of its order.                              *)
(***************************************************************************)
RECURSIVE BlocksFrom(_, _)
\* the headers met from offset off to the end of the region, each block skipped by the
\* size its header gives
BlocksFrom(off, fuel) ==
  IF off < 0 \/ off >= Pow2(kval_m) \/ fuel = 0 \/ ReadCell(mem, off).kval > kval_m THEN {}
  ELSE {off} \cup BlocksFrom(off + Pow2(ReadCell(mem, off).kval), fuel - 1)

RegionBlocks == BlocksFrom(0, Cardinality(DOMAIN mem) + 1)

\* the last pointer of the walk along next is the sentinel
ClosedList(k) ==
  LET fwd == FreeList(avail, mem, k)
  IN IF fwd = << >> THEN avail[k].next = SentinelPtr(k) /\ avail[k].prev = SentinelPtr(k)
     ELSE /\ ReadCell(mem, fwd[Len(fwd)]).next = SentinelPtr(k)
          /\ ReadCell(mem, fwd[1]).prev = SentinelPtr(k)

C18_ListsWellFormed ==
  (phase = "ready")
    => /\ \A k \in 0 .. kval_m :
            /\ ClosedList(k)
            /\ FreeListBack(avail, mem, k) = FreeList(avail, mem, k)
            /\ Cardinality(Range(FreeList(avail, mem, k))) = Len(FreeList(avail, mem, k))
            /\ \A b \in Range(FreeList(avail, mem, k)) :
                 /\ InRegion(b) /\ b \in RegionBlocks
                 /\ ReadCell(mem, b).tag = BLOCK_AVAIL
                 /\ ReadCell(mem, b).kval = k
       /\ \A b \in RegionBlocks :
            ReadCell(mem, b).tag = BLOCK_AVAIL
              => \A k \in 0 .. kval_m :
                    (b \in Range(FreeList(avail, mem, k))) <=> (k = ReadCell(mem, b).kval)

\* a free list holds two blocks
C18_TwoOnAList ==
  phase = "ready" /\ \E k \in 0 .. kval_m : Len(FreeList(avail, mem, k)) >= 2

(***************************************************************************)
(* C19  Between operations every block, AVAIL or RESERVED, of order k      *)
(* starts at an offset from base that is a multiple of 2^k, and its order  *)
(* is at most max_order.                                                   *)
(***************************************************************************)
C19_BlocksAligned ==
  (phase = "ready")
    => \A b \in ReservedBlocks \cup AvailBlocks \cup RegionBlocks :
         /\ ReadCell(mem, b).kval <= kval_m
         /\ b % Pow2(ReadCell(mem, b).kval) = 0

\* a block handed out and a free block, both above the base and of different orders
C19_UpperBlocks ==
  /\ phase = "ready"
  /\ \E b \in ReservedBlocks : \E f \in AvailBlocks :
       b > 0 /\ f > 0 /\ ReadCell(mem, b).kval # ReadCell(mem, f).kval

(***************************************************************************)
(* C20  free coalesces only while the block's order is below max_order and *)
(* its buddy is AVAIL with the same order; each step unlinks the buddy     *)
(* from its free list and keeps the lower-addressed block of the pair with *)
(* its order raised by one; the block finally put on a free list is        *)
(* aligned to its new order.                                               *)
(***************************************************************************)
RECURSIVE Coalesce(_, _, _)
\* the steps the rule prescribes for the block at off of order k in the state before
\* the call: the surviving block, its order, and the buddies absorbed on the way
Coalesce(off, k, absorbed) ==
  IF k < kval_m /\ XorBit(off, k) \in Range(FreeList(avail, mem, k))
                /\ ReadCell(mem, XorBit(off, k)).tag = BLOCK_AVAIL
                /\ ReadCell(mem, XorBit(off, k)).kval = k
  THEN Coalesce(IF off < XorBit(off, k) THEN off ELSE XorBit(off, k), k + 1,
                absorbed \cup {<<XorBit(off, k), k>>})
  ELSE [off |-> off, k |-> k, absorbed |-> absorbed]

C20_Holds(c, freed) ==
  /\ ReadCell(mem', c.off).kval = c.k
  /\ ReadCell(mem', c.off).tag = BLOCK_AVAIL
  /\ c.off \in Range(FreeList(avail', mem', c.k))
  /\ c.off % Pow2(c.k) = 0
  /\ c.off <= freed
  /\ \A x \in c.absorbed :
       /\ x[1] \notin Range(FreeList(avail', mem', x[2]))
       /\ (x[1] # c.off) => ~LinkedOf(avail', mem', x[1])
  /\ \A k \in 0 .. kval_m :
       Range(FreeList(avail', mem', k))
         = (Range(FreeList(avail, mem, k)) \ {x[1] : x \in {y \in c.absorbed : y[2] = k}})
             \cup {b \in {c.off} : k = c.k}

C20_Step ==
  (phase = "ready" /\ ops' = ops + 1 /\ ret'.op = "free" /\ ret'.p # Null /\ ret'.out = "ok")
    => C20_Holds(Coalesce(ret'.p.off - AVAIL_SIZE,
                          ReadCell(mem, ret'.p.off - AVAIL_SIZE).kval, {}),
                 ret'.p.off - AVAIL_SIZE)

C20_CoalesceSteps == [][C20_Step]_vars

\* a free of the upper block of a pair went on merging up to the whole region
C20_MergedIntoLower ==
  /\ phase = "ready" /\ ret.op = "free" /\ ret.p # Null /\ ret.out = "ok"
  /\ ret.p.off > AVAIL_SIZE
  /\ PoolFull

(***************************************************************************)
(* C21  In every pool state malloc(n), with k = bytes_to_order(n + H),     *)
(* succeeds if and only if some free list avail[j], k <= j <= max_order,   *)
(* is non-empty, and fails with NoMemory exactly when there is no free     *)
(* block of order at least k.                                              *)
(***************************************************************************)
\* a free list of order k or more holds a block
BlockOfOrderAtLeast(k) ==
  \E j \in 0 .. kval_m : j >= k /\ FreeList(avail, mem, j) # << >>

C21_Step ==
  (phase = "ready" /\ ops' = ops + 1 /\ ret'.op = "malloc")
    => /\ (ret'.out = "ok") <=> BlockOfOrderAtLeast(OrderFor(ret'.n))
       /\ (ret'.out = "nomem") <=> ~BlockOfOrderAtLeast(OrderFor(ret'.n))

C21_SucceedsIffBlock == [][C21_Step]_vars

(***************************************************************************)
(* C22  A malloc or realloc call that returns Err(NoMemory) leaves the     *)
(* pool as it was before the call: no block split, unlinked or retagged,   *)
(* every free list unchanged, and for realloc the block at the input       *)
(* pointer still RESERVED with its order and its contents.                 *)
(***************************************************************************)
C22_Step ==
  (phase = "ready" /\ ops' = ops + 1 /\ ret'.op \in {"malloc", "realloc"} /\ ret'.out = "nomem")
    => /\ avail' = avail
       /\ mem' = mem
       /\ \A k \in 0 .. kval_m : FreeList(avail', mem', k) = FreeList(avail, mem, k)
       /\ live' = live /\ lost' = lost
       /\ phase' = "ready"
       /\ (ret'.p # Null)
            => /\ ReadCell(mem', ret'.p.off - AVAIL_SIZE).tag = BLOCK_RESERVED
               /\ ReadCell(mem', ret'.p.off - AVAIL_SIZE).kval
                    = ReadCell(mem, ret'.p.off - AVAIL_SIZE).kval
               /\ ~LinkedOf(avail', mem', ret'.p.off - AVAIL_SIZE)

C22_FailureLeavesPool == [][C22_Step]_vars

\* a realloc that had to grow found no block, with the caller's bytes in the old one
C22_GrowRefused ==
  /\ phase = "ready" /\ ret.op = "realloc" /\ ret.p # Null
  /\ ret.out = "nomem" /\ ret.kase = "grow"
  /\ \E c \in DOMAIN mem : mem[c] = UserCell

(***************************************************************************)
(* C23  In the grow case of realloc exactly 2^old_order bytes are copied,  *)
(* the source range starting at the old block's start address, p - H, the  *)
(* destination range starting at the new block's start address, and the    *)
(* two ranges do not overlap.                                              *)
(***************************************************************************)
\* the byte ranges [a, a + len) and [b, b + len) share no byte
Apart(a, b, len) == a + len <= b \/ b + len <= a

C23_GrowCopyRanges ==
  (ret.op = "realloc" /\ ret.kase = "grow" /\ ret.out = "ok")
    => /\ ret.copy.len = Pow2(ret.oldk)
       /\ ret.copy.src = ret.p.off - AVAIL_SIZE
       /\ ret.copy.dst = ret.ptr.off - AVAIL_SIZE
       /\ Apart(ret.copy.src, ret.copy.dst, ret.copy.len)

(***************************************************************************)
(* C24  In the grow case of realloc, whatever RESERVED block is grown,     *)
(* every byte the copy reads lies inside the old block and every byte it   *)
(* reads or writes lies inside [base, base + 2^max_order): the copy        *)
(* touches no other block's header and no memory outside the region.       *)
(***************************************************************************)
C24_GrowCopyInBounds ==
  (ret.op = "realloc" /\ ret.kase = "grow" /\ ret.copy.len > 0)
    => /\ ret.p.off - AVAIL_SIZE <= ret.copy.src
       /\ ret.copy.src + ret.copy.len <= (ret.p.off - AVAIL_SIZE) + Pow2(ret.oldk)
       /\ 0 <= ret.copy.src /\ ret.copy.src + ret.copy.len <= Pow2(kval_m)
       /\ 0 <= ret.copy.dst /\ ret.copy.dst + ret.copy.len <= Pow2(kval_m)

(***************************************************************************)
(* C25  Every malloc, free and realloc call on an initialized pool         *)
(* terminates: the recursion of malloc_kval(k) goes up at most             *)
(* max_order - k + 1 levels before it returns a block or NoMemory, the     *)
(* coalescing loop of free runs at most max_order - order times, and the   *)
(* shrink loop of realloc runs exactly old_order - target times.           *)
(***************************************************************************)
\* the order malloc and realloc hand to malloc_kval for a request of n bytes
AskedOrder(n) == BToK(WrappingAdd(n, HW))

\* max_order - k + 1, and nothing when k is above max_order
LevelsAbove(k) == IF k > kval_m THEN 0 ELSE kval_m - k + 1

C25_Step ==
  (phase = "ready" /\ ops' = ops + 1 /\ ret'.op \in {"malloc", "free", "realloc"})
    => /\ ret'.out \in {"ok", "nomem", "panic", "fault"}
       /\ ret'.up <= LevelsAbove(AskedOrder(ret'.n))
       /\ (ret'.out = "nomem" /\ AskedOrder(ret'.n) <= kval_m
             /\ (ret'.op = "malloc" \/ ret'.p = Null))
            => ret'.up = LevelsAbove(AskedOrder(ret'.n))
       /\ (ret'.p # Null)
            => /\ ret'.merges <= kval_m - ReadCell(mem, ret'.p.off - AVAIL_SIZE).kval
               /\ (ret'.op = "free" /\ ret'.out = "ok")
                    => ReadCell(mem', (Coalesce(ret'.p.off - AVAIL_SIZE,
                                                ReadCell(mem, ret'.p.off - AVAIL_SIZE).kval,
                                                {})).off).kval
                         = ReadCell(mem, ret'.p.off - AVAIL_SIZE).kval + ret'.merges
       /\ (ret'.op = "realloc" /\ ret'.p # Null /\ ret'.out = "ok")
            => IF ret'.kase = "shrink"
               THEN /\ ret'.shrinks = ret'.oldk - AskedOrder(ret'.n)
                    /\ ret'.shrinks = ret'.oldk - ReadCell(mem', ret'.p.off - AVAIL_SIZE).kval
                    /\ ret'.shrinks > 0
               ELSE ret'.shrinks = 0

C25_CallsTerminate == [][C25_Step]_vars

\* a realloc has come back from two or more turns of its shrink loop
C25_ShrunkTwice ==
  /\ phase = "ready" /\ ret.op = "realloc" /\ ret.kase = "shrink" /\ ret.out = "ok"
  /\ ret.shrinks >= 2
====
